---------------------------- MODULE Spec2Model ----------------------------
(***************************************************************************)
(* A model of the tokenizer FFI adapter (TokenizerFFI/src/lib.rs): the     *)
(* process-wide TOKENIZER cell behind the INIT once-gate, and the boundary *)
(* functions tokenizer_initialize, tokenizer_is_ready,                     *)
(* tokenizer_count_tokens, tokenizer_encode, tokenizer_decode and          *)
(* tokenizer_free_string.                                                  *)
(*                                                                         *)
(* The BPE engine itself (tiktoken_rs::CoreBPE) is not part of the source  *)
(* file; it is modelled from section 4.1 of the specification over a small *)
(* vocabulary that keeps the shape of cl100k: every single byte of the     *)
(* alphabet is a token, merged tokens have higher ranks, and the rank of a *)
(* token is its id.                                                        *)
(***************************************************************************)
EXTENDS Integers, Sequences, FiniteSets, TLC

(***************************************************************************)
(* Bounds of the model.                                                    *)
(***************************************************************************)
NumThreads == 2       \* host threads calling into the adapter
MaxInitCalls == 2     \* tokenizer_initialize calls started in one run
MaxLen == 3           \* bytes of a text handed to count_tokens / encode
MaxCap == 2           \* largest buffer_size handed to tokenizer_encode
MaxTok == 2           \* largest token_count handed to tokenizer_decode
MaxHandles == 2       \* addresses the allocator can hand out for CStrings

Threads == 1..NumThreads

(***************************************************************************)
(* Machine integers.  c_int is a 32-bit two's complement integer; a u32 is *)
(* kept as two 16-bit halves so that all 32 bits are represented exactly.  *)
(***************************************************************************)
Half == 2^16

\* A conversion that takes the magnitude of a negative id.
CIntMagnitude(x) ==
    LET m == IF x < 0 THEN -x ELSE x
    IN  [hi |-> (m \div Half) % Half, lo |-> m % Half]

\* `x as u32` for a c_int x (lib.rs:116): reinterpretation modulo 2^32.
CIntAsU32(x) == [hi |-> (x \div Half) % Half, lo |-> x % Half]

\* `x as c_int` for a u32 x (lib.rs:94): reinterpretation as two's complement.
U32AsCInt(u) ==
    IF u.hi >= Half \div 2 THEN (u.hi - Half) * Half + u.lo
                           ELSE u.hi * Half + u.lo

\* The Rank (u32) holding the natural number n < 2^31.
RankOf(n) == [hi |-> n \div Half, lo |-> n % Half]

Min(a, b) == IF a <= b THEN a ELSE b

(***************************************************************************)
(* Text: CStr::to_str and CString::new.                                    *)
(***************************************************************************)
IsCont(b) == b \in 128..191

\* core::str::from_utf8 as used by CStr::to_str (lib.rs:44, lib.rs:78) and by
\* the engine's decode: well-formed UTF-8 of 1 to 4 bytes per scalar value.
RECURSIVE IsUtf8(_)
IsUtf8(bs) ==
    IF bs = <<>> THEN TRUE
    ELSE LET c == Head(bs)
             n == Len(bs)
             Rest(k) == SubSeq(bs, k + 1, n)
         IN  IF c < 128 THEN IsUtf8(Tail(bs))
             ELSE IF c \in 194..223
                  THEN n >= 2 /\ IsCont(bs[2]) /\ IsUtf8(Rest(2))
             ELSE IF c \in 224..239
                  THEN /\ n >= 3
                       /\ IsCont(bs[2]) /\ IsCont(bs[3])
                       /\ (c = 224 => bs[2] >= 160)
                       /\ (c = 237 => bs[2] <= 159)
                       /\ IsUtf8(Rest(3))
             ELSE IF c \in 240..244
                  THEN /\ n >= 4
                       /\ IsCont(bs[2]) /\ IsCont(bs[3]) /\ IsCont(bs[4])
                       /\ (c = 240 => bs[2] >= 144)
                       /\ (c = 244 => bs[2] <= 143)
                       /\ IsUtf8(Rest(4))
             ELSE FALSE

\* CString::new (lib.rs:126): fails on an interior zero byte.
CStringNewOk(bs) == \A i \in 1..Len(bs) : bs[i] # 0

(***************************************************************************)
(* The BPE engine (CoreBPE), modelled from the specification.              *)
(***************************************************************************)
\* Token id i is Vocab[i + 1]: the five single bytes, then the merges.
Vocab ==
    << <<0>>, <<32>>, <<97>>, <<169>>, <<195>>,
       <<97, 97>>, <<32, 97>>, <<195, 169>> >>

VocabSize == Len(Vocab)

InVocab(bs) == \E i \in 1..VocabSize : Vocab[i] = bs

\* The rank (= id) of a byte group that is in the vocabulary.
Rank(bs) == (CHOOSE i \in 1..VocabSize : Vocab[i] = bs) - 1

IsSpace(b) == b = 32

\* Pre-tokenization of text made of spaces and letters, as the cl100k
\* pattern splits it: a word takes one leading space with it, a longer run
\* of spaces before a word gives up its last space to the word, and a run of
\* spaces at the end is one chunk.
RECURSIVE SpaceRun(_, _)
SpaceRun(bs, i) ==
    IF i <= Len(bs) /\ IsSpace(bs[i]) THEN 1 + SpaceRun(bs, i + 1) ELSE 0

RECURSIVE LetterRun(_, _)
LetterRun(bs, i) ==
    IF i <= Len(bs) /\ ~IsSpace(bs[i]) THEN 1 + LetterRun(bs, i + 1) ELSE 0

RECURSIVE PreTokenize(_)
PreTokenize(bs) ==
    IF bs = <<>> THEN <<>>
    ELSE LET n == Len(bs)
             s == SpaceRun(bs, 1)
             k == IF s = 0 THEN LetterRun(bs, 1)
                  ELSE IF s = n THEN n
                  ELSE IF s = 1 THEN 1 + LetterRun(bs, 2)
                  ELSE s - 1
         IN  <<SubSeq(bs, 1, k)>> \o PreTokenize(SubSeq(bs, k + 1, n))

\* Greedy merging inside one chunk: merge the adjacent pair of lowest rank,
\* the leftmost one on a tie, until no adjacent pair is in the vocabulary.
Mergeable(parts) ==
    {i \in 1..(Len(parts) - 1) : InVocab(parts[i] \o parts[i + 1])}

RECURSIVE BytePairMerge(_)
BytePairMerge(parts) ==
    IF Mergeable(parts) = {} THEN parts
    ELSE LET PairRank(i) == Rank(parts[i] \o parts[i + 1])
             i == CHOOSE j \in Mergeable(parts) :
                    \A k \in Mergeable(parts) :
                        \/ PairRank(j) < PairRank(k)
                        \/ (PairRank(j) = PairRank(k) /\ j <= k)
         IN  BytePairMerge(SubSeq(parts, 1, i - 1)
                           \o <<parts[i] \o parts[i + 1]>>
                           \o SubSeq(parts, i + 2, Len(parts)))

BytePairEncode(chunk) ==
    LET parts == BytePairMerge([i \in 1..Len(chunk) |-> <<chunk[i]>>])
    IN  [i \in 1..Len(parts) |-> RankOf(Rank(parts[i]))]

RECURSIVE EncodeChunks(_)
EncodeChunks(chunks) ==
    IF chunks = <<>> THEN <<>>
    ELSE BytePairEncode(Head(chunks)) \o EncodeChunks(Tail(chunks))

\* CoreBPE::encode_ordinary (lib.rs:56, lib.rs:86): the Vec<Rank> of a text.
EncodeOrdinary(bs) == EncodeChunks(PreTokenize(bs))

\* A Rank that names a vocabulary entry.
ValidRank(u) == u.hi = 0 /\ u.lo < VocabSize

RECURSIVE DecodeBytes(_)
DecodeBytes(ranks) ==
    IF ranks = <<>> THEN <<>>
    ELSE Vocab[Head(ranks).lo + 1] \o DecodeBytes(Tail(ranks))

\* CoreBPE::decode (lib.rs:121): Err on an id outside the vocabulary or on
\* bytes that are not UTF-8, else Ok of the concatenated token bytes.
Decode(ranks) ==
    IF \E i \in 1..Len(ranks) : ~ValidRank(ranks[i])
    THEN [ok |-> FALSE, text |-> <<>>]
    ELSE LET bs == DecodeBytes(ranks)
         IN  IF IsUtf8(bs) THEN [ok |-> TRUE, text |-> bs]
                           ELSE [ok |-> FALSE, text |-> <<>>]

(***************************************************************************)
(* The adapter's state.                                                    *)
(***************************************************************************)
VARIABLES
    TOKENIZER,    \* static mut TOKENIZER: Option<CoreBPE>: "None" or "Some"
    INIT,         \* static INIT: Once: "Incomplete", "Running" or "Complete"
    resource,     \* the bundled vocabulary data: "valid" or "corrupt"
    pc,           \* where each thread stands inside tokenizer_initialize
    loads,        \* how many times cl100k_base() has run
    loadResult,   \* what cl100k_base() returned: "none" yet, "ok" or "err"
    initStarted,  \* tokenizer_initialize calls started
    initReturned, \* tokenizer_initialize calls that have returned
    initRets,     \* the statuses those calls returned
    live,         \* CStrings handed out by into_raw and not yet freed
    last,         \* the latest call of another boundary function, as the
                  \* host sees it, until the host has taken the result
    mem,          \* the host memory holding the buffers of the threads that
                  \* run tokenizer_encode side by side
    frame         \* the locals of each such tokenizer_encode call

vars == <<TOKENIZER, INIT, resource, pc, loads, loadResult, initStarted,
          initReturned, initRets, live, last, mem, frame>>

(***************************************************************************)
(* Values crossing the boundary.  A pointer is null or points at cells.    *)
(***************************************************************************)
NullPtr == [null |-> TRUE, cells |-> <<>>]
Ptr(cells) == [null |-> FALSE, cells |-> cells]

\* A caller buffer of n c_ints, holding the caller's own fill value.
Buffer(n) == Ptr([i \in 1..n |-> -7])

SeqsUpTo(S, n) == UNION {[1..k -> S] : k \in 0..n}

Bytes == {32, 97, 169, 195}

\* Texts: null, or a nul-terminated string (so without a zero byte).
Texts == {NullPtr} \cup {Ptr(b) : b \in SeqsUpTo(Bytes, MaxLen)}

\* Buffers and the buffer_size given with them (never more than is there).
EncodeArgs ==
    {<<NullPtr, 1>>} \cup
    UNION {{<<Buffer(n), k>> : k \in 0..n} : n \in 0..MaxCap}

\* Token ids: two negative c_ints (the second with the low half of a valid
\* id), the zero byte, a letter, the two halves of a two-byte character, and
\* the first id past the vocabulary.
TokenIds == {-1, 2 - Half, 0, 2, 3, 4, VocabSize}

\* Token arrays and the token_count given with them.
DecodeArgs ==
    {<<NullPtr, 0>>, <<NullPtr, 1>>} \cup
    UNION {{<<Ptr(c), 0>>, <<Ptr(c), Len(c)>>} :
              c \in SeqsUpTo(TokenIds, MaxTok) \ {<<>>}}

\* The inputs used while threads interleave: one of each kind.
ProbeTexts == {NullPtr, Ptr(<<>>), Ptr(<<97>>), Ptr(<<169>>)}

ProbeEncodeArgs == {<<NullPtr, 1>>, <<Buffer(1), 1>>, <<Buffer(1), 0>>}

ProbeDecodeArgs ==
    {<<NullPtr, 1>>, <<Ptr(<<2>>), 0>>, <<Ptr(<<2>>), 1>>,
     <<Ptr(<<VocabSize>>), 1>>, <<Ptr(<<-1>>), 1>>}

NoCall ==
    [op |-> "none", thread |-> 0, text |-> NullPtr, buf |-> NullPtr,
     cap |-> 0, toks |-> NullPtr, count |-> 0, ret |-> 0, out |-> <<>>,
     str |-> <<>>, seen |-> "Unread", fault |-> FALSE, engine |-> "None",
     loaded |-> "none", inited |-> FALSE, chained |-> FALSE,
     liveBefore |-> {}, long |-> FALSE,
     len |-> [w3 |-> 0, w2 |-> 0, w1 |-> 0, w0 |-> 0]]

\* The threads that run tokenizer_encode side by side, each with a buffer of
\* MaxCap cells of its own, one buffer after the other in memory.
NumEncoders == Min(2, NumThreads)

Encoders == 1..NumEncoders

Base(t) == (t - 1) * MaxCap

Region(t) == (Base(t) + 1)..(Base(t) + MaxCap)

\* Valid texts of one, two and three tokens.
EncoderTexts == {<<97>>, <<97, 32, 97>>, <<32, 32, 32>>}

NoFrame ==
    [text |-> <<>>, cap |-> 0, tokens |-> <<>>, count |-> 0, i |-> 0,
     ret |-> 0, ready |-> FALSE]

(***************************************************************************)
(* Reading TOKENIZER.  The readers and the writer touch the static mut     *)
(* without any synchronisation of their own.  A read that overlaps the     *)
(* store of Some(bpe) is a data race: it may see the old value, the new    *)
(* value, or a value whose tag says Some while the CoreBPE is only partly  *)
(* written ("Torn").                                                       *)
(***************************************************************************)
Storing == \E t \in Threads : pc[t] = "storing"

Observations == IF Storing THEN {"None", "Some", "Torn"} ELSE {TOKENIZER}

\* What a call that uses a torn value does is not defined: it may behave as
\* with either value (and the call is marked as a fault).
UsedAs(seen) ==
    IF seen = "Torn" THEN {"None", "Some"}
    ELSE IF seen = "Unread" THEN {TOKENIZER}
    ELSE {seen}

(***************************************************************************)
(* Init                                                                    *)
(***************************************************************************)
Init ==
    /\ TOKENIZER = "None"
    /\ INIT = "Incomplete"
    /\ resource \in {"valid", "corrupt"}
    /\ pc = [t \in Threads |-> "idle"]
    /\ loads = 0
    /\ loadResult = "none"
    /\ initStarted = 0
    /\ initReturned = 0
    /\ initRets = {}
    /\ live = {}
    /\ last = NoCall
    /\ mem = [a \in 1..(NumEncoders * MaxCap) |-> -7]
    /\ frame = [t \in Encoders |-> NoFrame]

(***************************************************************************)
(* tokenizer_initialize, step by step.                                     *)
(***************************************************************************)
\* A thread enters tokenizer_initialize.
InitializeCall(t) ==
    /\ pc[t] = "idle"
    /\ initStarted < MaxInitCalls
    /\ initStarted' = initStarted + 1
    /\ pc' = [pc EXCEPT ![t] = "call_once"]
    /\ UNCHANGED <<mem, frame, TOKENIZER, INIT, resource, loads, loadResult,
                   initReturned, initRets, live, last>>

\* A once-gate that lets a second caller into the closure while the first
\* is still running it.
CallOnceNoExclusion(t) ==
    /\ pc[t] = "call_once"
    /\ IF INIT # "Complete"
       THEN /\ INIT' = "Running"
            /\ pc' = [pc EXCEPT ![t] = "closure"]
       ELSE /\ INIT' = INIT
            /\ pc' = [pc EXCEPT ![t] = "check"]
    /\ UNCHANGED <<mem, frame, TOKENIZER, resource, loads, loadResult, initStarted,
                   initReturned, initRets, live, last>>

\* INIT.call_once: the first caller runs the closure, a caller that finds it
\* running waits, a caller that finds it complete goes on.
CallOnce(t) ==
    /\ pc[t] = "call_once"
    /\ INIT # "Running"
    /\ IF INIT = "Incomplete"
       THEN /\ INIT' = "Running"
            /\ pc' = [pc EXCEPT ![t] = "closure"]
       ELSE /\ INIT' = INIT
            /\ pc' = [pc EXCEPT ![t] = "check"]
    /\ UNCHANGED <<mem, frame, TOKENIZER, resource, loads, loadResult, initStarted,
                   initReturned, initRets, live, last>>

\* A closure that stores a tokenizer whatever cl100k_base() returned.
LoadStoresOnErr(t) ==
    /\ pc[t] = "closure"
    /\ loads' = loads + 1
    /\ loadResult' = (IF resource = "valid" THEN "ok" ELSE "err")
    /\ pc' = [pc EXCEPT ![t] = "storing"]
    /\ UNCHANGED <<mem, frame, TOKENIZER, INIT, resource, initStarted, initReturned,
                   initRets, live, last>>

\* The closure: cl100k_base() runs; on Ok the store into TOKENIZER begins,
\* on Err the closure only prints.
Load(t) ==
    /\ pc[t] = "closure"
    /\ loads' = loads + 1
    /\ IF resource = "valid"
       THEN /\ loadResult' = "ok"
            /\ pc' = [pc EXCEPT ![t] = "storing"]
       ELSE /\ loadResult' = "err"
            /\ pc' = [pc EXCEPT ![t] = "closure_end"]
    /\ UNCHANGED <<mem, frame, TOKENIZER, INIT, resource, initStarted, initReturned,
                   initRets, live, last>>

\* TOKENIZER = Some(bpe) is complete.
StoreEnd(t) ==
    /\ pc[t] = "storing"
    /\ TOKENIZER' = "Some"
    /\ pc' = [pc EXCEPT ![t] = "closure_end"]
    /\ UNCHANGED <<mem, frame, INIT, resource, loads, loadResult, initStarted,
                   initReturned, initRets, live, last>>

\* The closure returns and the Once is complete.
ClosureReturn(t) ==
    /\ pc[t] = "closure_end"
    /\ INIT' = "Complete"
    /\ pc' = [pc EXCEPT ![t] = "check"]
    /\ UNCHANGED <<mem, frame, TOKENIZER, resource, loads, loadResult, initStarted,
                   initReturned, initRets, live, last>>

\* A status that takes call_once to have succeeded and never looks.
InitializeStatusAlwaysOk(tok) == 0

\* if TOKENIZER.is_some() { 0 } else { -1 }
InitializeStatus(tok) == IF tok = "Some" THEN 0 ELSE -1

InitializeReturn(t) ==
    /\ pc[t] = "check"
    /\ \E seen \in Observations : \E tok \in UsedAs(seen) :
          initRets' = initRets \cup {InitializeStatus(tok)}
    /\ initReturned' = initReturned + 1
    /\ pc' = [pc EXCEPT ![t] = "idle"]
    /\ UNCHANGED <<mem, frame, TOKENIZER, INIT, resource, loads, loadResult,
                   initStarted, live, last>>

(***************************************************************************)
(* The other boundary functions.  Each is one step: it reads TOKENIZER at  *)
(* most once and touches nothing else that is shared.                      *)
(***************************************************************************)
\* `n as c_int` for a usize n (lib.rs:57, lib.rs:97): the low 32 bits.
UsizeAsCInt(n) == U32AsCInt([hi |-> (n \div Half) % Half, lo |-> n % Half])

\* What the host learns from a call, with the state it was made in.
Called(op, t, seen) ==
    [NoCall EXCEPT !.op = op, !.thread = t, !.seen = seen,
                   !.fault = (seen = "Torn"), !.engine = TOKENIZER,
                   !.loaded = loadResult, !.inited = (initReturned > 0),
                   !.liveBefore = live]

\* tokenizer_is_ready: if TOKENIZER.is_some() { 1 } else { 0 }
IsReadyStatus(tok) == IF tok = "Some" THEN 1 ELSE 0

tokenizer_is_ready(t) ==
    /\ pc[t] = "idle"
    /\ last.op = "none"
    /\ \E seen \in Observations :
          last' = [Called("is_ready", t, seen) EXCEPT
                      !.ret = IsReadyStatus(IF seen = "Torn" THEN "Some"
                                            ELSE seen)]
    /\ UNCHANGED <<mem, frame, TOKENIZER, INIT, resource, pc, loads, loadResult,
                   initStarted, initReturned, initRets, live>>

\* tokenizer_count_tokens reaches `match &TOKENIZER` only past its early
\* returns.
CountReadsTokenizer(text) ==
    ~text.null /\ IsUtf8(text.cells) /\ text.cells # <<>>

\* A count of the text's bytes.
CountTokensCountsBytes(text, tok) ==
    IF text.null THEN 0
    ELSE IF ~IsUtf8(text.cells) THEN -1
    ELSE IF text.cells = <<>> THEN 0
    ELSE IF tok = "Some" THEN Len(text.cells)
    ELSE -1

\* A count that answers 0 when there is no tokenizer.
CountTokensZeroWhenNone(text, tok) ==
    IF text.null THEN 0
    ELSE IF ~IsUtf8(text.cells) THEN -1
    ELSE IF text.cells = <<>> THEN 0
    ELSE IF tok = "Some" THEN Len(EncodeOrdinary(text.cells))
    ELSE 0

CountTokensResult(text, tok) ==
    IF text.null THEN 0
    ELSE IF ~IsUtf8(text.cells) THEN -1
    ELSE IF text.cells = <<>> THEN 0
    ELSE IF tok = "Some" THEN UsizeAsCInt(Len(EncodeOrdinary(text.cells)))
    ELSE -1

tokenizer_count_tokens(t, text) ==
    /\ pc[t] = "idle"
    /\ last.op = "none"
    /\ \E seen \in (IF CountReadsTokenizer(text) THEN Observations
                                                ELSE {"Unread"}) :
       \E tok \in UsedAs(seen) :
          last' = [Called("count_tokens", t, seen) EXCEPT
                      !.text = text, !.ret = CountTokensResult(text, tok)]
    /\ UNCHANGED <<mem, frame, TOKENIZER, INIT, resource, pc, loads, loadResult,
                   initStarted, initReturned, initRets, live>>

\* tokenizer_encode: the status and the caller's buffer afterwards.
EncodeReadsTokenizer(text, buf) ==
    ~text.null /\ ~buf.null /\ IsUtf8(text.cells)

\* An encode that writes every id the buffer has room for, whatever
\* buffer_size says.
EncodeIgnoresCapacity(text, buf, cap, tok) ==
    IF text.null \/ buf.null THEN [ret |-> -1, out |-> buf.cells]
    ELSE IF ~IsUtf8(text.cells) THEN [ret |-> -1, out |-> buf.cells]
    ELSE IF tok = "Some"
         THEN LET tokens == EncodeOrdinary(text.cells)
              IN  [ret |-> Len(tokens),
                   out |-> [i \in 1..Len(buf.cells) |->
                              IF i <= Len(tokens) THEN U32AsCInt(tokens[i])
                                                  ELSE buf.cells[i]]]
    ELSE [ret |-> -1, out |-> buf.cells]

\* An encode that returns how many ids it wrote.
EncodeReturnsWritten(text, buf, cap, tok) ==
    IF text.null \/ buf.null THEN [ret |-> -1, out |-> buf.cells]
    ELSE IF ~IsUtf8(text.cells) THEN [ret |-> -1, out |-> buf.cells]
    ELSE IF tok = "Some"
         THEN LET tokens == EncodeOrdinary(text.cells)
                  count == Min(Len(tokens), cap)
              IN  [ret |-> count,
                   out |-> [i \in 1..Len(buf.cells) |->
                              IF i <= count THEN U32AsCInt(tokens[i])
                                            ELSE buf.cells[i]]]
    ELSE [ret |-> -1, out |-> buf.cells]

\* An encode that takes the text's bytes as they are, valid or not.
EncodeUnchecked(text, buf, cap, tok) ==
    IF text.null \/ buf.null THEN [ret |-> -1, out |-> buf.cells]
    ELSE IF tok = "Some"
         THEN LET tokens == EncodeOrdinary(text.cells)
                  count == Min(Len(tokens), cap)
              IN  [ret |-> Len(tokens),
                   out |-> [i \in 1..Len(buf.cells) |->
                              IF i <= count THEN U32AsCInt(tokens[i])
                                            ELSE buf.cells[i]]]
    ELSE [ret |-> -1, out |-> buf.cells]

EncodeResult(text, buf, cap, tok) ==
    IF text.null \/ buf.null THEN [ret |-> -1, out |-> buf.cells]
    ELSE IF ~IsUtf8(text.cells) THEN [ret |-> -1, out |-> buf.cells]
    ELSE IF tok = "Some"
         THEN LET tokens == EncodeOrdinary(text.cells)
                  count == Min(Len(tokens), cap)
              IN  [ret |-> UsizeAsCInt(Len(tokens)),
                   out |-> [i \in 1..Len(buf.cells) |->
                              IF i <= count THEN U32AsCInt(tokens[i])
                                            ELSE buf.cells[i]]]
    ELSE [ret |-> -1, out |-> buf.cells]

tokenizer_encode(t, text, buf, cap) ==
    /\ pc[t] = "idle"
    /\ last.op = "none"
    /\ \E seen \in (IF EncodeReadsTokenizer(text, buf) THEN Observations
                                                      ELSE {"Unread"}) :
       \E tok \in UsedAs(seen) :
          LET r == EncodeResult(text, buf, cap, tok)
          IN  last' = [Called("encode", t, seen) EXCEPT
                          !.text = text, !.buf = buf, !.cap = cap,
                          !.ret = r.ret, !.out = r.out]
    /\ UNCHANGED <<mem, frame, TOKENIZER, INIT, resource, pc, loads, loadResult,
                   initStarted, initReturned, initRets, live>>

(***************************************************************************)
(* tokenizer_encode, store by store, for calls that run side by side.  The *)
(* text is valid and the buffer is not null, so the call reaches           *)
(* `match &TOKENIZER`.                                                     *)
(***************************************************************************)
\* A count that is the number of tokens, whatever the buffer holds.
WriteCountIgnoresCapacity(n, cap) == n

\* let count = tokens.len().min(buffer_size);
WriteCount(n, cap) == Min(n, cap)

\* The call up to the loop: the tokens are in a Vec of the call's own.
EncodeEnter(t, text, cap) ==
    /\ pc[t] = "idle"
    /\ \E seen \in Observations : \E tok \in UsedAs(seen) :
          IF tok = "Some"
          THEN LET tokens == EncodeOrdinary(text)
               IN  /\ frame' = [frame EXCEPT ![t] =
                         [text |-> text, cap |-> cap, tokens |-> tokens,
                          count |-> WriteCount(Len(tokens), cap), i |-> 0,
                          ret |-> 0,
                          ready |-> (seen = "Some" /\ TOKENIZER = "Some")]]
                   /\ pc' = [pc EXCEPT ![t] = "encode_loop"]
          ELSE /\ frame' = [frame EXCEPT ![t] =
                     [NoFrame EXCEPT !.text = text, !.cap = cap, !.ret = -1]]
               /\ pc' = [pc EXCEPT ![t] = "encode_done"]
    /\ UNCHANGED <<TOKENIZER, INIT, resource, loads, loadResult,
                   initStarted, initReturned, initRets, live, last, mem>>

\* *tokens_buffer.add(i) = *token as c_int;
EncodeStore(t) ==
    /\ pc[t] = "encode_loop"
    /\ frame[t].i < frame[t].count
    /\ Base(t) + frame[t].i + 1 \in DOMAIN mem
    /\ mem' = [mem EXCEPT ![Base(t) + frame[t].i + 1] =
                  U32AsCInt(frame[t].tokens[frame[t].i + 1])]
    /\ frame' = [frame EXCEPT ![t].i = @ + 1]
    /\ UNCHANGED <<TOKENIZER, INIT, resource, pc, loads, loadResult,
                   initStarted, initReturned, initRets, live, last>>

\* tokens.len() as c_int
EncodeLeave(t) ==
    /\ pc[t] = "encode_loop"
    /\ frame[t].i = frame[t].count
    /\ frame' = [frame EXCEPT ![t].ret = UsizeAsCInt(Len(frame[t].tokens))]
    /\ pc' = [pc EXCEPT ![t] = "encode_done"]
    /\ UNCHANGED <<TOKENIZER, INIT, resource, loads, loadResult,
                   initStarted, initReturned, initRets, live, last, mem>>

\* The host has read the status and its buffer, and fills the buffer anew.
EncodeTaken(t) ==
    /\ pc[t] = "encode_done"
    /\ frame' = [frame EXCEPT ![t] = NoFrame]
    /\ mem' = [a \in DOMAIN mem |-> IF a \in Region(t) THEN -7 ELSE mem[a]]
    /\ pc' = [pc EXCEPT ![t] = "idle"]
    /\ UNCHANGED <<TOKENIZER, INIT, resource, loads, loadResult,
                   initStarted, initReturned, initRets, live, last>>

(***************************************************************************)
(* Texts too long to write out.  A usize is kept as four 16-bit limbs, and *)
(* such a text is given by the length of the Vec<Rank> its encoding has:   *)
(* the largest c_int, one more, 2^32 - 1, 2^32, and 2^32 + 3.              *)
(***************************************************************************)
LongCounts ==
    {[w3 |-> 0, w2 |-> 0, w1 |-> Half \div 2 - 1, w0 |-> Half - 1],
     [w3 |-> 0, w2 |-> 0, w1 |-> Half \div 2, w0 |-> 0],
     [w3 |-> 0, w2 |-> 0, w1 |-> Half - 1, w0 |-> Half - 1],
     [w3 |-> 0, w2 |-> 1, w1 |-> 0, w0 |-> 0],
     [w3 |-> 0, w2 |-> 1, w1 |-> 0, w0 |-> 3]}

\* `tokens.len() as c_int` (lib.rs:57, lib.rs:97) on the limbs of the usize.
LenAsCInt(len) == U32AsCInt([hi |-> len.w1, lo |-> len.w0])

\* tokenizer_count_tokens of a valid text whose encoding has len tokens.
LongCountTokens(t, len) ==
    /\ pc[t] = "idle"
    /\ last.op = "none"
    /\ \E seen \in Observations : \E tok \in UsedAs(seen) :
          last' = [Called("count_tokens", t, seen) EXCEPT
                      !.long = TRUE, !.len = len,
                      !.ret = IF tok = "Some" THEN LenAsCInt(len) ELSE -1]
    /\ UNCHANGED <<mem, frame, TOKENIZER, INIT, resource, pc, loads, loadResult,
                   initStarted, initReturned, initRets, live>>

\* tokenizer_encode of such a text with a buffer_size of 0: min(len, 0) ids
\* are written.
LongEncode(t, len, buf) ==
    /\ pc[t] = "idle"
    /\ last.op = "none"
    /\ ~buf.null
    /\ \E seen \in Observations : \E tok \in UsedAs(seen) :
          last' = [Called("encode", t, seen) EXCEPT
                      !.long = TRUE, !.len = len, !.buf = buf, !.cap = 0,
                      !.out = buf.cells,
                      !.ret = IF tok = "Some" THEN LenAsCInt(len) ELSE -1]
    /\ UNCHANGED <<mem, frame, TOKENIZER, INIT, resource, pc, loads, loadResult,
                   initStarted, initReturned, initRets, live>>

\* tokenizer_decode: whether a CString is handed out, and its bytes.
DecodeReadsTokenizer(toks, count) == ~toks.null /\ count # 0

\* A decode that goes on with a token_count of 0.
DecodeNoCountCheck(toks, count, tok) ==
    IF toks.null THEN [some |-> FALSE, str |-> <<>>]
    ELSE IF tok = "Some"
         THEN LET r == Decode([i \in 1..count |-> CIntAsU32(toks.cells[i])])
              IN  IF r.ok /\ CStringNewOk(r.text)
                  THEN [some |-> TRUE, str |-> r.text]
                  ELSE [some |-> FALSE, str |-> <<>>]
    ELSE [some |-> FALSE, str |-> <<>>]

\* A decode that takes every cell of the array, whatever token_count says.
DecodeWholeArray(toks, count, tok) ==
    IF toks.null \/ count = 0 THEN [some |-> FALSE, str |-> <<>>]
    ELSE IF tok = "Some"
         THEN LET r == Decode([i \in 1..Len(toks.cells) |->
                                 CIntAsU32(toks.cells[i])])
              IN  IF r.ok /\ CStringNewOk(r.text)
                  THEN [some |-> TRUE, str |-> r.text]
                  ELSE [some |-> FALSE, str |-> <<>>]
    ELSE [some |-> FALSE, str |-> <<>>]

DecodeResult(toks, count, tok) ==
    IF toks.null \/ count = 0 THEN [some |-> FALSE, str |-> <<>>]
    ELSE IF tok = "Some"
         THEN LET tokens_slice == SubSeq(toks.cells, 1, count)
                  tokens_vec == [i \in 1..count |->
                                   CIntAsU32(tokens_slice[i])]
                  r == Decode(tokens_vec)
              IN  IF r.ok /\ CStringNewOk(r.text)
                  THEN [some |-> TRUE, str |-> r.text]
                  ELSE [some |-> FALSE, str |-> <<>>]
    ELSE [some |-> FALSE, str |-> <<>>]

\* The call, with `chained` telling that the host passes the buffer and the
\* status of the tokenizer_encode call it has just made.
DecodeCall(t, toks, count, chained) ==
    /\ pc[t] = "idle"
    /\ \E seen \in (IF DecodeReadsTokenizer(toks, count) THEN Observations
                                                        ELSE {"Unread"}) :
       \E tok \in UsedAs(seen) :
          LET r == DecodeResult(toks, count, tok)
              c == [Called("decode", t, seen) EXCEPT
                       !.toks = toks, !.count = count, !.chained = chained,
                       !.text = IF chained THEN last.text ELSE NullPtr]
          IN  IF r.some
              THEN \E h \in (1..MaxHandles) \ live :
                      /\ live' = live \cup {h}
                      /\ last' = [c EXCEPT !.ret = h, !.str = r.str]
              ELSE /\ live' = live
                   /\ last' = c
    /\ UNCHANGED <<mem, frame, TOKENIZER, INIT, resource, pc, loads, loadResult,
                   initStarted, initReturned, initRets>>

tokenizer_decode(t, toks, count) ==
    /\ last.op = "none"
    /\ DecodeCall(t, toks, count, FALSE)

\* The host decodes what tokenizer_encode has just put in its buffer, when
\* the buffer was large enough for all of it.
DecodeEncoded(t) ==
    /\ last.op = "encode"
    /\ last.thread = t
    /\ last.ret >= 0
    /\ last.ret <= last.cap
    /\ DecodeCall(t, Ptr(last.out), last.ret, TRUE)

\* A free that releases nothing.
FreeLeaks(s, handles) == handles

\* tokenizer_free_string, given null (0) or a handle the host holds.
FreeResult(s, handles) == IF s # 0 THEN handles \ {s} ELSE handles

tokenizer_free_string(t, s) ==
    /\ pc[t] = "idle"
    /\ last.op = "none"
    /\ s = 0 \/ s \in live
    /\ live' = FreeResult(s, live)
    /\ last' = [Called("free_string", t, "Unread") EXCEPT !.ret = s]
    /\ UNCHANGED <<mem, frame, TOKENIZER, INIT, resource, pc, loads, loadResult,
                   initStarted, initReturned, initRets>>

\* tokenizer_count_tokens, tokenizer_encode or tokenizer_decode that reaches
\* `match &TOKENIZER` during the store and goes on into the partly written
\* CoreBPE (an index out of bounds, a wild pointer): the call faults and
\* does not return.
TornUseFaults(t) ==
    /\ pc[t] = "idle"
    /\ last.op = "none"
    /\ Storing
    /\ pc' = [pc EXCEPT ![t] = "faulted"]
    /\ UNCHANGED <<mem, frame, TOKENIZER, INIT, resource, loads, loadResult,
                   initStarted, initReturned, initRets, live, last>>

\* The host has taken the result of its latest call.
HostTakesResult ==
    /\ last.op # "none"
    /\ last' = NoCall
    /\ UNCHANGED <<mem, frame, TOKENIZER, INIT, resource, pc, loads, loadResult,
                   initStarted, initReturned, initRets, live>>

(***************************************************************************)
(* Specifications.                                                         *)
(***************************************************************************)
Initialize(t) ==
    \/ InitializeCall(t)
    \/ CallOnce(t)
    \/ Load(t)
    \/ StoreEnd(t)
    \/ ClosureReturn(t)
    \/ InitializeReturn(t)

\* Any number of threads in any interleaving, one input of each kind.
Next ==
    \/ \E t \in Threads : Initialize(t)
    \/ \E t \in Threads : tokenizer_is_ready(t)
    \/ \E t \in Threads, text \in ProbeTexts : tokenizer_count_tokens(t, text)
    \/ \E t \in Threads, text \in ProbeTexts, a \in ProbeEncodeArgs :
          tokenizer_encode(t, text, a[1], a[2])
    \/ \E t \in Threads, a \in ProbeDecodeArgs :
          tokenizer_decode(t, a[1], a[2])
    \/ \E t \in Threads : DecodeEncoded(t)
    \/ \E t \in Threads, s \in 0..MaxHandles : tokenizer_free_string(t, s)
    \/ \E t \in Threads : TornUseFaults(t)
    \/ HostTakesResult

Spec == Init /\ [][Next]_vars

\* A thread that is inside tokenizer_initialize and can take its next step
\* takes it: the host's threads keep running, and cl100k_base() ends.
Fairness ==
    \A t \in Threads :
        /\ WF_vars(CallOnce(t))
        /\ WF_vars(Load(t))
        /\ WF_vars(StoreEnd(t))
        /\ WF_vars(ClosureReturn(t))
        /\ WF_vars(InitializeReturn(t))

FairSpec == Spec /\ Fairness

\* One host thread, every input within the bounds.  A call is made once the
\* host has taken the result of the one before.
CountTokensOfAnyText ==
    /\ last.op = "none"
    /\ \E text \in Texts : tokenizer_count_tokens(1, text)

EncodeOfAnyText ==
    /\ last.op = "none"
    /\ \E text \in Texts, a \in EncodeArgs :
          tokenizer_encode(1, text, a[1], a[2])

DecodeOfAnyTokens ==
    /\ last.op = "none"
    /\ \E a \in DecodeArgs : tokenizer_decode(1, a[1], a[2])

NextCalls ==
    \/ Initialize(1)
    \/ tokenizer_is_ready(1)
    \/ CountTokensOfAnyText
    \/ EncodeOfAnyText
    \/ DecodeOfAnyTokens
    \/ DecodeEncoded(1)
    \/ \E s \in 0..MaxHandles : tokenizer_free_string(1, s)
    \/ HostTakesResult

SpecCalls == Init /\ [][NextCalls]_vars

\* One host thread, texts of every size: the short ones written out and the
\* long ones given by their token counts.
NextLong ==
    \/ Initialize(1)
    \/ \E text \in ProbeTexts : tokenizer_count_tokens(1, text)
    \/ \E text \in ProbeTexts, a \in ProbeEncodeArgs :
          tokenizer_encode(1, text, a[1], a[2])
    \/ \E len \in LongCounts : LongCountTokens(1, len)
    \/ \E len \in LongCounts, n \in 0..MaxCap : LongEncode(1, len, Buffer(n))
    \/ HostTakesResult

SpecLong == Init /\ [][NextLong]_vars

\* tokenizer_encode calls side by side, while any thread may initialize.
NextEncoders ==
    \/ \E t \in Threads : Initialize(t)
    \/ \E t \in Encoders, text \in EncoderTexts, cap \in 0..MaxCap :
          EncodeEnter(t, text, cap)
    \/ \E t \in Encoders : EncodeStore(t)
    \/ \E t \in Encoders : EncodeLeave(t)
    \/ \E t \in Encoders : EncodeTaken(t)

SpecEncoders == Init /\ [][NextEncoders]_vars

(***************************************************************************)
(* Properties.                                                             *)
(***************************************************************************)
\* The number a Rank holds.
RankValue(u) == u.hi * Half + u.lo

ValidText(text) == ~text.null /\ IsUtf8(text.cells)

\* The engine was Ready when the latest call was made and nothing was being
\* stored into it.
CalledWhenReady == last.engine = "Some" /\ last.seen \in {"Some", "Unread"}

\* C1: however many tokenizer_initialize calls the threads make and however
\* they interleave, cl100k_base() runs at most once, it has run exactly once
\* when any of the calls has returned, and with a valid vocabulary resource
\* tokenizer_is_ready called after any of them has returned gives 1.
C1_IdempotentInit ==
    /\ loads <= 1
    /\ initReturned > 0 => loads = 1
    /\ (last.op = "is_ready" /\ last.inited /\ resource = "valid")
          => last.ret = 1

C1_Witness ==
    /\ initReturned >= 2
    /\ loads = 1
    /\ last.op = "is_ready" /\ last.inited /\ last.ret = 1

\* C2: no call of tokenizer_is_ready, tokenizer_count_tokens,
\* tokenizer_encode or tokenizer_decode sees or uses a half-written
\* TOKENIZER: each sees the engine as not ready or as fully ready.
C2_NoHalfWrittenRead ==
    last.op \in {"is_ready", "count_tokens", "encode", "decode"}
        => last.seen # "Torn" /\ ~last.fault

\* C3: TOKENIZER is None or Some; it changes only from None to Some, only
\* when the store of a successfully loaded tokenizer completes inside
\* tokenizer_initialize; once Some it stays Some, and after a failed load it
\* stays None.
C3_Step ==
    /\ TOKENIZER = "Some" => TOKENIZER' = "Some"
    /\ TOKENIZER' # TOKENIZER =>
          /\ TOKENIZER = "None" /\ TOKENIZER' = "Some"
          /\ loadResult = "ok"
          /\ \E t \in Threads : pc[t] = "storing" /\ pc'[t] = "closure_end"
    /\ loadResult = "err" => TOKENIZER = "None" /\ TOKENIZER' = "None"

C3_StateMachine ==
    /\ [](TOKENIZER \in {"None", "Some"})
    /\ [][C3_Step]_vars

C3_Witness ==
    /\ TOKENIZER = "Some"
    /\ initReturned >= 2
    /\ loads = 1

\* C4: every tokenizer_initialize call that has returned has returned the
\* status of the one load: 0 if it succeeded, -1 if it failed, and the load
\* is not run again after it failed.
C4_SameStatus ==
    /\ loads <= 1
    /\ initReturned > 0 => loadResult # "none" /\ initRets # {}
    /\ loadResult = "ok" => initRets \subseteq {0}
    /\ loadResult = "err" => initRets \subseteq {-1}

C4_Witness ==
    /\ loadResult = "err"
    /\ initReturned >= 2
    /\ initRets = {-1}
    /\ loads = 1

\* C5 as stated: while no load has succeeded, tokenizer_count_tokens gives -1
\* and tokenizer_encode gives -1 for every input, null and empty text
\* included, tokenizer_decode gives null and tokenizer_is_ready gives 0.
C5_AsStated ==
    last.loaded # "ok" =>
        /\ last.op = "count_tokens" => last.ret = -1
        /\ last.op = "encode" => last.ret = -1
        /\ last.op = "decode" => last.ret = 0
        /\ last.op = "is_ready" => last.ret = 0

\* C5 amended: while no load has succeeded, tokenizer_count_tokens gives 0
\* for a null or empty text and -1 for every other text, tokenizer_encode
\* gives -1 for every input, tokenizer_decode gives null and
\* tokenizer_is_ready gives 0.
C5_NotReady ==
    last.loaded # "ok" =>
        /\ last.op = "count_tokens" =>
              last.ret = (IF last.text.null \/ last.text.cells = <<>>
                          THEN 0 ELSE -1)
        /\ last.op = "encode" => last.ret = -1
        /\ last.op = "decode" => last.ret = 0 /\ live = last.liveBefore
        /\ last.op = "is_ready" => last.ret = 0

C5_Witness ==
    /\ last.loaded # "ok"
    /\ last.op = "count_tokens"
    /\ last.text = Ptr(<<97>>)
    /\ last.ret = -1

\* C6: with the engine Ready, a valid text and a non-null buffer,
\* tokenizer_encode returns the length n of the text's encoding whatever the
\* capacity k, and the first min(n, k) cells of the buffer hold the first
\* min(n, k) ids of that encoding, in order.
C6_Truncation ==
    (last.op = "encode" /\ CalledWhenReady /\ ValidText(last.text)
        /\ ~last.buf.null)
    => LET enc == EncodeOrdinary(last.text.cells)
       IN  /\ last.ret = Len(enc)
           /\ \A i \in 1..Min(Len(enc), last.cap) :
                 last.out[i] = RankValue(enc[i])

C6_Witness ==
    /\ last.op = "encode" /\ CalledWhenReady
    /\ last.cap >= 1
    /\ last.ret > last.cap
    /\ last.out[1] = RankValue(EncodeOrdinary(last.text.cells)[1])

\* C7 as stated: with the engine Ready, for every valid text, the empty text
\* included, tokenizer_decode of what tokenizer_encode put into a buffer
\* large enough gives a handle whose string is the text.
C7_AsStated ==
    (last.op = "decode" /\ last.chained /\ CalledWhenReady)
    => last.ret # 0 /\ last.str = last.text.cells

\* C7 amended: with the engine Ready, for every valid text that is not
\* empty, tokenizer_decode of what tokenizer_encode put into a buffer large
\* enough gives a handle whose string is the text; for the empty text
\* tokenizer_encode gives 0 and tokenizer_decode of 0 tokens gives null.
C7_RoundTrip ==
    (last.op = "decode" /\ last.chained /\ CalledWhenReady)
    => IF last.text.cells = <<>>
       THEN last.count = 0 /\ last.ret = 0
       ELSE last.ret # 0 /\ last.str = last.text.cells

C7_Witness ==
    /\ last.op = "decode" /\ last.chained /\ CalledWhenReady
    /\ last.count >= 2
    /\ last.ret # 0
    /\ last.str = last.text.cells

\* C8: whatever the engine state, tokenizer_count_tokens gives 0 for a null
\* text and for the empty text, and tokenizer_decode gives null and hands
\* out no CString when the token pointer is null or the count is 0.
C8_NullEmpty ==
    /\ (last.op = "count_tokens"
           /\ (last.text.null \/ last.text.cells = <<>>))
       => last.ret = 0
    /\ (last.op = "decode" /\ (last.toks.null \/ last.count = 0))
       => last.ret = 0 /\ live = last.liveBefore

C8_Witness ==
    /\ last.op = "decode"
    /\ ~last.toks.null /\ last.count = 0
    /\ last.engine = "Some"
    /\ last.ret = 0

\* C9: with the engine Ready, tokenizer_decode gives null and hands out no
\* CString when any of the ids it is given is negative or is not below the
\* vocabulary size, wherever in the array that id is.
C9_InvalidId ==
    (last.op = "decode" /\ CalledWhenReady /\ ~last.toks.null
        /\ last.count > 0
        /\ \E i \in 1..last.count :
              last.toks.cells[i] \notin 0..(VocabSize - 1))
    => last.ret = 0 /\ live = last.liveBefore /\ last.str = <<>>

C9_Witness ==
    /\ last.op = "decode" /\ CalledWhenReady
    /\ last.count = 2
    /\ last.toks.cells[1] = 2
    /\ last.toks.cells[2] = -1
    /\ last.ret = 0

\* C10: whatever the engine state, tokenizer_encode gives -1 when the text is
\* null, the buffer is null or the text is not valid UTF-8, and
\* tokenizer_count_tokens gives -1 when a non-null text is not valid UTF-8;
\* these calls do not fault and leave TOKENIZER and INIT as they were.
C10_Case ==
    \/ /\ last.op = "encode"
       /\ last.text.null \/ last.buf.null \/ ~IsUtf8(last.text.cells)
    \/ /\ last.op = "count_tokens"
       /\ ~last.text.null /\ ~IsUtf8(last.text.cells)

C10_InvalidInput ==
    /\ [](C10_Case => last.ret = -1 /\ ~last.fault)
    /\ [][(C10_Case' /\ last' # last)
             => TOKENIZER' = TOKENIZER /\ INIT' = INIT]_vars

C10_Witness ==
    /\ last.op = "encode"
    /\ ~last.text.null /\ ~last.buf.null
    /\ ~IsUtf8(last.text.cells)
    /\ last.engine = "Some"
    /\ last.ret = -1

\* C11: a handle tokenizer_decode returns is not one of the live handles and
\* becomes live; tokenizer_free_string(h) releases h and nothing else, and
\* tokenizer_free_string(null) releases nothing; no other step of the
\* adapter changes the set of live handles.  So when the host has freed each
\* handle it was given once, no handle is live.
C11_Step ==
    /\ (last' # last /\ last'.op = "decode") =>
          IF last'.ret # 0
          THEN last'.ret \notin live /\ live' = live \cup {last'.ret}
          ELSE live' = live
    /\ (last' # last /\ last'.op = "free_string") =>
          IF last'.ret # 0
          THEN last'.ret \in live /\ live' = live \ {last'.ret}
          ELSE live' = live
    /\ live' # live =>
          last' # last /\ last'.op \in {"decode", "free_string"}

C11_Ownership ==
    /\ [](0 \notin live)
    /\ [][C11_Step]_vars

C11_Witness ==
    /\ last.op = "free_string"
    /\ last.ret # 0
    /\ Cardinality(last.liveBefore) = 2
    /\ live = last.liveBefore \ {last.ret}

\* C13: with the engine Ready, for every valid non-null text,
\* tokenizer_count_tokens gives the length of the text's encoding, and
\* tokenizer_encode gives that same number whatever non-null buffer and
\* capacity it is given.
C13_CountIsLength ==
    /\ (last.op = "count_tokens" /\ CalledWhenReady /\ ValidText(last.text))
       => last.ret = Len(EncodeOrdinary(last.text.cells))
    /\ (last.op = "encode" /\ CalledWhenReady /\ ValidText(last.text)
           /\ ~last.buf.null)
       => last.ret = CountTokensResult(last.text, "Some")

C13_Witness ==
    /\ last.op = "count_tokens" /\ CalledWhenReady
    /\ last.text = Ptr(<<97, 97, 32>>)
    /\ last.ret = 2

\* C14: tokenizer_encode leaves every cell of the caller's buffer from index
\* min(true count, capacity) on as it was; it leaves the whole buffer as it
\* was when it returns -1 and when the capacity is 0; it writes no cell at
\* or past index capacity.
C14_BufferFrame ==
    last.op = "encode" =>
        /\ Len(last.out) = Len(last.buf.cells)
        /\ \A i \in 1..Len(last.out) :
              (i > last.cap \/ i > last.ret) =>
                  last.out[i] = last.buf.cells[i]
        /\ (last.ret = -1 \/ last.cap = 0) => last.out = last.buf.cells

C14_Witness ==
    /\ last.op = "encode" /\ CalledWhenReady
    /\ Len(last.buf.cells) = 2
    /\ last.cap = 1
    /\ last.ret = 2
    /\ last.out[1] # last.buf.cells[1]
    /\ last.out[2] = last.buf.cells[2]

\* C15: tokenizer_is_ready, tokenizer_count_tokens, tokenizer_encode,
\* tokenizer_decode and tokenizer_free_string leave TOKENIZER and INIT as
\* they were, only tokenizer_initialize changes them, and tokenizer_is_ready
\* gives 1 exactly when the engine is Ready.
C15_Step ==
    /\ last' # last => TOKENIZER' = TOKENIZER /\ INIT' = INIT
    /\ (TOKENIZER' # TOKENIZER \/ INIT' # INIT) =>
          \E t \in Threads :
             /\ pc[t] \in {"call_once", "storing", "closure_end"}
             /\ pc'[t] # pc[t]

C15_AsStated ==
    /\ [](last.op = "is_ready" => (last.ret = 1 <=> last.engine = "Some"))
    /\ [][C15_Step]_vars

\* The bytes of the vocabulary entries of the ids, one after the other.
RECURSIVE TokenBytes(_)
TokenBytes(ids) ==
    IF ids = <<>> THEN <<>>
    ELSE Vocab[Head(ids) + 1] \o TokenBytes(Tail(ids))

\* C16: with the engine Ready, a non-null token pointer and a count above 0,
\* when every id is within the vocabulary and the bytes of the ids' entries,
\* one after the other, are valid text, tokenizer_decode gives a handle whose
\* content is exactly those bytes, also when an entry holds the zero byte.
C16_AsStated ==
    (last.op = "decode" /\ CalledWhenReady /\ ~last.toks.null
        /\ last.count > 0
        /\ \A i \in 1..last.count :
              last.toks.cells[i] \in 0..(VocabSize - 1)
        /\ IsUtf8(TokenBytes(SubSeq(last.toks.cells, 1, last.count))))
    => /\ last.ret # 0
       /\ last.str = TokenBytes(SubSeq(last.toks.cells, 1, last.count))

\* C17: on every successful call of tokenizer_count_tokens and of
\* tokenizer_encode the c_int returned is the true token count and is not
\* negative, whatever count a usize can hold.
C17_AsStated ==
    (last.op \in {"count_tokens", "encode"} /\ CalledWhenReady
        /\ last.seen = "Some")
    => /\ last.ret >= 0
       /\ IF last.long
          THEN /\ last.len.w3 = 0 /\ last.len.w2 = 0
               /\ CIntAsU32(last.ret) = [hi |-> last.len.w1,
                                         lo |-> last.len.w0]
          ELSE last.ret = Len(EncodeOrdinary(last.text.cells))

\* C18: under fair scheduling, with a load that ends, every call that was
\* started returns: a thread inside tokenizer_initialize, waiting for
\* another thread's load or not, comes back, and a thread that calls
\* tokenizer_is_ready, tokenizer_count_tokens, tokenizer_encode or
\* tokenizer_decode is never held up by a tokenizer_initialize in progress
\* and comes back too.
C18_NeverHeldUp ==
    \A t \in Threads :
        (pc[t] = "idle" /\ last.op = "none") =>
            /\ ENABLED tokenizer_is_ready(t)
            /\ ENABLED tokenizer_count_tokens(t, Ptr(<<97>>))
            /\ ENABLED tokenizer_encode(t, Ptr(<<97>>), Buffer(1), 1)
            /\ ENABLED tokenizer_decode(t, Ptr(<<VocabSize>>), 1)

C18_AsStated ==
    /\ []C18_NeverHeldUp
    /\ \A t \in Threads : (pc[t] # "idle") ~> (pc[t] = "idle")

\* C12: with the engine Ready, tokenizer_encode calls that run side by side
\* on different threads, each with a buffer of its own, each return and
\* leave in their buffer what the same call gives when it runs alone,
\* however their steps interleave; and a call stores only into its own
\* buffer.
C12_Alone(t) ==
    EncodeResult(Ptr(frame[t].text), Buffer(MaxCap), frame[t].cap, "Some")

C12_Step ==
    \A a \in DOMAIN mem :
        mem'[a] # mem[a] =>
            \E t \in Encoders :
                /\ a \in Region(t)
                /\ pc[t] \in {"encode_loop", "encode_done"}

C12_Independent ==
    /\ [](\A t \in Encoders :
             (pc[t] = "encode_done" /\ frame[t].ready) =>
                 /\ frame[t].ret = C12_Alone(t).ret
                 /\ [i \in 1..MaxCap |-> mem[Base(t) + i]] = C12_Alone(t).out)
    /\ [][C12_Step]_vars

C12_Witness ==
    /\ pc[1] = "encode_done" /\ frame[1].ready
    /\ pc[2] = "encode_loop" /\ frame[2].ready
    /\ frame[1].text # frame[2].text
    /\ frame[1].count = 2
    /\ frame[2].i = 1 /\ frame[2].count = 2

=============================================================================
